---------------------------- MODULE Spec2Model ----------------------------
(***************************************************************************)
(* A model of wradlib's differential-phase processing (wradlib/dp.py):     *)
(* linear_despeckle, contiguous_regions, fill_phidp, unfold_phi_naive,     *)
(* kdp_from_phidp, texture and the driver process_raw_phidp; and of the    *)
(* construction and call of Raw_at_obs (wradlib/adjust.py).                *)
(*                                                                         *)
(* Arrays are functions over 0-based indices, as in numpy: a beam is a     *)
(* function [0..n-1 -> Sample] and a scan is a function                    *)
(* [0..beams-1 -> beam].  A Sample is a record: NaN, or Num(v) with v an   *)
(* integer.  Floating-point values are held in fixed point: the integer v  *)
(* stands for the float v / Unit, and Unit is a power of two large enough  *)
(* that every halving the code performs is exact.                          *)
(***************************************************************************)
EXTENDS Integers, Sequences, FiniteSets, TLC

VARIABLES
    data,   \* the caller's input array (the object the caller passed in)
    orig,   \* the value `data` held when the call was made
    rho,    \* the caller's quality array
    args,   \* the keyword arguments of the call under study
    ret,    \* the sequence of values returned by the calls made so far
    pc,     \* control position of the call under study
    loc     \* the local variables of the call under study

vars == <<data, orig, rho, args, ret, pc, loc>>

---------------------------------------------------------------------------
(* Samples and arrays *)

NaN == [nan |-> TRUE, v |-> 0]

Num(x) == [nan |-> FALSE, v |-> x]

isnan(s) == s.nan

\* The length of the last (range) axis and the number of beams of a scan.
Beams(a) == Cardinality(DOMAIN a)

Gates(a) == Cardinality(DOMAIN a[0])

\* Every shape (beams, gates) with at least MinGates gates and at most
\* cells samples in all.
Shapes(cells, MinGates) ==
    { s \in (1..cells) \X (MinGates..cells) : s[1] * s[2] <= cells }

\* The scan of shape s whose sample (b, r) is valid where mask[b][r] holds;
\* valid samples carry pairwise different values.
ScanOf(s, mask) ==
    [b \in 0..(s[1]-1) |->
        [r \in 0..(s[2]-1) |->
            IF mask[b][r] THEN Num(10 * b + r + 1) ELSE NaN]]

Masks(s) == [0..(s[1]-1) -> [0..(s[2]-1) -> BOOLEAN]]

---------------------------------------------------------------------------
(* linear_despeckle *)

\* np.roll(a, shift, axis=-1) of one beam: element r moves to r + shift,
\* cyclically.
roll(a, shift) ==
    LET n == Cardinality(DOMAIN a)
    IN  [r \in DOMAIN a |-> a[(r - shift) % n]]

\* The mask inverted: ones at the NaNs.
validity_inverted(beam) ==
    [r \in DOMAIN beam |-> IF isnan(beam[r]) THEN 1 ELSE 0]

\* arr = ones; arr[isnan(data)] = 0, for one beam.
validity(beam) == [r \in DOMAIN beam |-> IF isnan(beam[r]) THEN 0 ELSE 1]

\* test = arr + arr_plus1 + arr_minus1 (+ arr_plus2 + arr_minus2)
despeckle_test(beam, N) ==
    LET arr        == validity(beam)
        arr_plus1  == roll(arr, 1)
        arr_minus1 == roll(arr, -1)
        arr_plus2  == roll(arr, 2)
        arr_minus2 == roll(arr, -2)
    IN  [r \in DOMAIN beam |->
            IF N = 3
            THEN arr[r] + arr_plus1[r] + arr_minus1[r]
            ELSE arr[r] + arr_plus1[r] + arr_minus1[r]
                        + arr_plus2[r] + arr_minus2[r]]

\* The wrong threshold: one more valid sample is demanded.
despeckle_threshold_strict(N) == IF N = 3 THEN 3 ELSE 4

\* test<2 for N=3, test<3 for N=5.
despeckle_threshold(N) == IF N = 3 THEN 2 ELSE 3

\* data[logical_and(logical_not(isnan(data)), test < thr)] = nan
despeckle_window(beam, N) ==
    LET test == despeckle_test(beam, N)
    IN  [r \in DOMAIN beam |->
            IF ~isnan(beam[r]) /\ test[r] < despeckle_threshold(N)
            THEN NaN ELSE beam[r]]

\* The first-gate rule left out.
despeckle_first_gate_none(beam) == beam

\* data[isnan(take(data, [1], axis=-1))] = nan: gate 0 of a beam becomes NaN
\* where gate 1 of that beam is NaN.
despeckle_first_gate(beam) ==
    [r \in DOMAIN beam |-> IF r = 0 /\ isnan(beam[1]) THEN NaN ELSE beam[r]]

linear_despeckle(a, N) ==
    [b \in DOMAIN a |-> despeckle_first_gate(despeckle_window(a[b], N))]

---------------------------------------------------------------------------
(* Calls of linear_despeckle: x = linear_despeckle(x, N, copy), twice. *)

\* The largest number of samples of a scan handed to linear_despeckle.
DespeckleCells == 8

\* The number of successive calls x = linear_despeckle(x) that are followed.
DespeckleCalls == 2

NoLocals == [none |-> TRUE]

InitDespeckle ==
    /\ \E s \in Shapes(DespeckleCells, 2) :
         \E mask \in Masks(s) : data = ScanOf(s, mask)
    /\ orig = data
    /\ rho = <<>>
    /\ args \in [N : {3, 5}, copy : BOOLEAN]
    /\ ret = <<>>
    /\ pc = "caller"
    /\ loc = NoLocals

\* One call x = linear_despeckle(x, N=N, copy=copy).  With copy=False the
\* array is changed in place and returned, so every name of it sees the
\* result; with copy=True the work is done on a copy.
CallDespeckle ==
    /\ pc = "caller"
    /\ Len(ret) < DespeckleCalls
    /\ LET x   == IF ret = <<>> THEN data ELSE ret[Len(ret)]
           out == linear_despeckle(x, args.N)
       IN  /\ ret' = Append(ret, out)
           /\ data' = IF args.copy THEN data ELSE out
    /\ UNCHANGED <<orig, rho, args, pc, loc>>

NextDespeckle == CallDespeckle

SpecDespeckle == InitDespeckle /\ [][NextDespeckle]_vars

---------------------------------------------------------------------------
(* Properties of linear_despeckle *)

\* The number of window offsets d in -h..h at which the beam holds a valid
\* sample, the gate index taken cyclically.
ValidInWindow(beam, r, h) ==
    LET n == Cardinality(DOMAIN beam)
    IN  Cardinality({ d \in (0-h)..h : ~isnan(beam[(r + d) % n]) })

\* Whether gate r of the beam survives the window test.
SurvivesWindow(beam, r, N) ==
    /\ ~isnan(beam[r])
    /\ ValidInWindow(beam, r, (N - 1) \div 2) >= (IF N = 3 THEN 2 ELSE 3)

\* C1 as stated: linear_despeckle is idempotent, for every beam and for
\* N=3 and N=5: the second of two successive calls changes nothing.
C1_Idempotent ==
    Len(ret) >= 2 => ret[2] = ret[1]

\* C1 as amended: with N=3 a beam whose last gate is invalid is left
\* unchanged by a second call; in every case (N=3 or N=5, any beam) a second
\* call only invalidates: each sample is either what the first call left or
\* NaN.
C1_IdempotentNoWrap ==
    Len(ret) >= 2 =>
        \A b \in DOMAIN orig :
            /\ (args.N = 3 /\ isnan(orig[b][Gates(orig) - 1]))
                   => ret[2][b] = ret[1][b]
            /\ \A r \in DOMAIN orig[b] :
                   ret[2][b][r] \in {ret[1][b][r], NaN}

\* A second call has been made with N=3 on a beam whose last gate is
\* invalid, which the first call changed and in which it left valid samples.
C1_Witness ==
    /\ Len(ret) >= 2
    /\ args.N = 3
    /\ \E b \in DOMAIN orig :
          /\ isnan(orig[b][Gates(orig) - 1])
          /\ ret[1][b] # orig[b]
          /\ \E r \in DOMAIN orig[b] : ~isnan(ret[1][b][r])

\* C8: the result of linear_despeckle is exactly: a sample stays valid, with
\* its value, iff it is valid in the input and the count of valid samples in
\* its cyclic window of the input reaches the threshold (2 of 3, 3 of 5),
\* except that gate 0 is invalid whenever gate 1 is invalid after the
\* window test; nothing invalid becomes valid.
C8_DespeckleResult ==
    Len(ret) >= 1 =>
        \A b \in DOMAIN orig : \A r \in DOMAIN orig[b] :
            LET beam == orig[b]
                keep == /\ SurvivesWindow(beam, r, args.N)
                        /\ (r = 0 => SurvivesWindow(beam, 1, args.N))
            IN  ret[1][b][r] = IF keep THEN beam[r] ELSE NaN

\* A call has kept the valid last gate of a beam whose gate 0 passes the
\* window test (through its cyclic neighbour) and is removed by the
\* first-gate rule alone; and it has removed a sample at a gate past gate 0.
C8_Witness ==
    /\ Len(ret) >= 1
    /\ \E b \in DOMAIN orig :
          LET n == Gates(orig)
          IN  /\ ~isnan(orig[b][n - 1]) /\ ~isnan(ret[1][b][n - 1])
              /\ SurvivesWindow(orig[b], 0, args.N)
              /\ isnan(ret[1][b][0])
    /\ \E b \in DOMAIN orig : \E r \in DOMAIN orig[b] :
          r > 0 /\ ~isnan(orig[b][r]) /\ isnan(ret[1][b][r])

\* C9: a beam with no invalid sample is returned unchanged, for N=3 and
\* for N=5.
C9_NoInvalidNoChange ==
    Len(ret) >= 1 =>
        \A b \in DOMAIN orig :
            (\A r \in DOMAIN orig[b] : ~isnan(orig[b][r]))
                => ret[1][b] = orig[b]

\* A call has been made on a scan with a beam free of invalid samples and
\* another beam that the call changed.
C9_Witness ==
    /\ Len(ret) >= 1
    /\ \E b \in DOMAIN orig : \A r \in DOMAIN orig[b] : ~isnan(orig[b][r])
    /\ \E b \in DOMAIN orig : ret[1][b] # orig[b]

---------------------------------------------------------------------------
(* contiguous_regions *)

\* d = np.diff(condition): for booleans, d[i] is condition[i+1] xor
\* condition[i], for i in 0..n-2.
diff(condition) ==
    LET n == Cardinality(DOMAIN condition)
    IN  [i \in 0..(n - 2) |-> condition[i + 1] # condition[i]]

\* idx, = d.nonzero(): the indices at which d holds, ascending, from index
\* `from` on.
RECURSIVE nonzero(_, _)
nonzero(d, from) ==
    IF from \notin DOMAIN d THEN <<>>
    ELSE (IF d[from] THEN <<from>> ELSE <<>>) \o nonzero(d, from + 1)

\* idx.shape = (-1, 2): consecutive entries paired.
reshape2(idx) ==
    [k \in 1..(Len(idx) \div 2) |-> <<idx[2 * k - 1], idx[2 * k]>>]

\* The change indices not shifted to the right by one.
shifted_none(idx) == idx

\* idx += 1
shifted(idx) == [k \in DOMAIN idx |-> idx[k] + 1]

contiguous_regions(condition) ==
    LET n    == Cardinality(DOMAIN condition)
        idx0 == shifted(nonzero(diff(condition), 0))
        idx1 == IF condition[0] THEN <<0>> \o idx0 ELSE idx0
        idx2 == IF condition[n - 1] THEN idx1 \o <<n>> ELSE idx1
    IN  reshape2(idx2)

---------------------------------------------------------------------------
(* fill_phidp *)

\* The largest number of gates of a beam handed to fill_phidp.
FillGates == 5

\* The fixed-point unit: the float x is held as the integer x * Unit.  A beam
\* of n gates is halved at most n + 1 times in a row by fill_phidp.
Unit == 2 ^ (FillGates + 2)

\* a[lo:hi] as a sequence, the bounds clipped to the array as numpy clips
\* them (lo and hi are non-negative here).
RECURSIVE slice(_, _, _)
slice(a, lo, hi) ==
    IF lo >= hi \/ lo \notin DOMAIN a THEN <<>>
    ELSE <<a[lo]>> \o slice(a, lo + 1, hi)

\* The values of the valid samples of a sequence of samples, in order.
RECURSIVE valid_values(_)
valid_values(xs) ==
    IF xs = <<>> THEN <<>>
    ELSE (IF isnan(Head(xs)) THEN <<>> ELSE <<Head(xs).v>>)
             \o valid_values(Tail(xs))

\* A sequence of integers with x inserted before the first larger entry.
RECURSIVE insert_sorted(_, _)
insert_sorted(x, xs) ==
    IF xs = <<>> THEN <<x>>
    ELSE IF x <= Head(xs) THEN <<x>> \o xs
    ELSE <<Head(xs)>> \o insert_sorted(x, Tail(xs))

RECURSIVE sorted(_)
sorted(xs) ==
    IF xs = <<>> THEN <<>> ELSE insert_sorted(Head(xs), sorted(Tail(xs)))

\* np.mean([x, y]) of two samples; NaN if either is.
mean2(x, y) ==
    IF isnan(x) \/ isnan(y) THEN NaN ELSE Num((x.v + y.v) \div 2)

\* The median that does not set the invalid samples aside: NaN as soon as
\* one sample of the window is invalid.
median_keeping_nan(xs) ==
    LET vs == sorted(valid_values(xs))
        m  == Len(vs)
    IN  IF m = 0 \/ m < Len(xs) THEN NaN
        ELSE IF m % 2 = 1 THEN Num(vs[(m + 1) \div 2])
        ELSE mean2(Num(vs[m \div 2]), Num(vs[m \div 2 + 1]))

\* scipy.stats.nanmedian of a sequence of samples: the median of the valid
\* ones (the middle one, or the mean of the two middle ones); NaN if there
\* is none.
nanmedian(xs) ==
    LET vs == sorted(valid_values(xs))
        m  == Len(vs)
    IN  IF m = 0 THEN NaN
        ELSE IF m % 2 = 1 THEN Num(vs[(m + 1) \div 2])
        ELSE mean2(Num(vs[m \div 2]), Num(vs[m \div 2 + 1]))

\* beam[lo:hi] = x
assign(beam, lo, hi, x) ==
    [r \in DOMAIN beam |-> IF lo <= r /\ r < hi THEN x ELSE beam[r]]

\* One pass of the loop over the gaps: gap = gaps[j], filled in the beam as
\* the gaps before it have left it.
fill_gap(beam, gap, margin) ==
    LET n      == Cardinality(DOMAIN beam)
        left0  == gap[1] - margin
        left   == IF left0 < 0 THEN 0 ELSE left0
        right0 == gap[2] + margin
    IN  IF gap[1] = 0
        THEN assign(beam, 0, gap[2],
                    nanmedian(slice(beam, gap[2], gap[2] + margin)))
        ELSE IF gap[2] = n
        THEN assign(beam, gap[1], n, nanmedian(slice(beam, left, gap[1])))
        ELSE LET right == IF right0 > n THEN n ELSE right0
             IN  assign(beam, gap[1], gap[2],
                        mean2(nanmedian(slice(beam, gap[2], right)),
                              nanmedian(slice(beam, left, gap[1]))))

\* for j in range(len(gaps)), from gap j on.
RECURSIVE fill_gaps(_, _, _, _)
fill_gaps(beam, gaps, j, margin) ==
    IF j > Len(gaps) THEN beam
    ELSE fill_gaps(fill_gap(beam, gaps[j], margin), gaps, j + 1, margin)

\* The test made on the whole scan instead of on beam i.
all_invalid_scan(a, i) ==
    \A b \in DOMAIN a : \A r \in DOMAIN a[b] : isnan(a[b][r])

\* np.all(np.isnan(data[i]))
all_invalid(a, i) == \A r \in DOMAIN a[i] : isnan(a[i][r])

\* The gaps are those of the input (invalids is computed before the loop).
fill_phidp(a, margin) ==
    [i \in DOMAIN a |->
        IF all_invalid(a, i)
        THEN [r \in DOMAIN a[i] |-> Num(0)]
        ELSE LET invalids == [r \in DOMAIN a[i] |-> isnan(a[i][r])]
             IN  fill_gaps(a[i], contiguous_regions(invalids), 1, margin)]

---------------------------------------------------------------------------
(* Calls of contiguous_regions and fill_phidp *)

\* The largest number of samples of a scan handed to fill_phidp.
FillCells == 6

\* The largest margin argument.
FillMargin == 3

\* The values the valid samples of an input take, in floats.
FillValues == {0, 1, 2}

FillSamples == {NaN} \cup { Num(x * Unit) : x \in FillValues }

FillShapes == { s \in Shapes(FillCells, 1) : s[2] <= FillGates }

InitFill ==
    /\ \E s \in FillShapes :
         data \in [0..(s[1]-1) -> [0..(s[2]-1) -> FillSamples]]
    /\ orig = data
    /\ rho = <<>>
    /\ args \in [margin : 1..FillMargin]
    /\ ret = <<>>
    /\ pc = "caller"
    /\ loc = NoLocals

\* The call fill_phidp(data, margin): the beams are rewritten in place (the
\* reshape is a view of the caller's array) and the array is returned.
CallFill ==
    /\ pc = "caller"
    /\ ret = <<>>
    /\ LET out == fill_phidp(data, args.margin)
       IN  /\ ret' = <<out>>
           /\ data' = out
    /\ pc' = "returned"
    /\ UNCHANGED <<orig, rho, args, loc>>

NextFill == CallFill

SpecFill == InitFill /\ [][NextFill]_vars

\* The largest length of a boolean sequence handed to contiguous_regions.
RegionLen == 7

InitRegions ==
    /\ \E n \in 1..RegionLen : data \in [0..(n - 1) -> BOOLEAN]
    /\ orig = data
    /\ rho = <<>>
    /\ args = [none |-> TRUE]
    /\ ret = <<>>
    /\ pc = "caller"
    /\ loc = NoLocals

\* The call contiguous_regions(condition).
CallRegions ==
    /\ pc = "caller"
    /\ ret' = <<contiguous_regions(data)>>
    /\ pc' = "returned"
    /\ UNCHANGED <<data, orig, rho, args, loc>>

NextRegions == CallRegions

SpecRegions == InitRegions /\ [][NextRegions]_vars

---------------------------------------------------------------------------
(* Properties of contiguous_regions and fill_phidp *)

\* [s, e) is a maximal run of True in the boolean array c.
MaximalRun(c, s, e) ==
    LET n == Cardinality(DOMAIN c)
    IN  /\ 0 <= s /\ s < e /\ e <= n
        /\ \A i \in s..(e - 1) : c[i]
        /\ s = 0 \/ ~c[s - 1]
        /\ e = n \/ ~c[e]

\* [T,F,F,T,T,F,T]
RegionsExample ==
    [i \in 0..6 |-> i \in {0, 3, 4, 6}]

\* C6: contiguous_regions returns exactly the maximal runs of True, as
\* half-open pairs in ascending order, runs touching either end included;
\* [T,F,F,T,T,F,T] gives [[0,1],[3,5],[6,7]] and no True gives no pair.
C6_Regions ==
    pc = "returned" =>
        LET R == ret[1]
        IN  /\ \A k \in DOMAIN R : MaximalRun(orig, R[k][1], R[k][2])
            /\ \A k \in DOMAIN R : k + 1 \in DOMAIN R => R[k][2] < R[k + 1][1]
            /\ \A i \in DOMAIN orig :
                   orig[i] => \E k \in DOMAIN R : R[k][1] <= i /\ i < R[k][2]
            /\ orig = RegionsExample => R = << <<0, 1>>, <<3, 5>>, <<6, 7>> >>
            /\ (\A i \in DOMAIN orig : ~orig[i]) => R = <<>>

\* contiguous_regions has returned for [T,F,F,T,T,F,T].
C6_Witness ==
    pc = "returned" /\ orig = RegionsExample /\ Len(ret[1]) = 3

\* The gaps of a beam: its maximal runs of invalid samples.
Gaps(beam) ==
    LET n == Cardinality(DOMAIN beam)
        c == [r \in DOMAIN beam |-> isnan(beam[r])]
    IN  { g \in (0..n) \X (0..n) : MaximalRun(c, g[1], g[2]) }

\* The fill of gap g of a beam as the claim states it: from the medians of
\* the valid samples of the beam in the margin windows beside the gap.
FillFromBeam(beam, g, margin) ==
    LET n  == Cardinality(DOMAIN beam)
        lo == IF g[1] - margin < 0 THEN 0 ELSE g[1] - margin
        hi == IF g[2] + margin > n THEN n ELSE g[2] + margin
        ml == nanmedian(slice(beam, lo, g[1]))
        mr == nanmedian(slice(beam, g[2], hi))
    IN  IF g[1] = 0 THEN mr
        ELSE IF g[2] = n THEN ml
        ELSE mean2(ml, mr)

\* C5: in a beam with a valid sample, every gap is filled from the input
\* beam: a gap at the left edge with the median of the valid samples in the
\* margin to its right, a gap at the right edge with the median of those in
\* the margin to its left, any other gap with the average of the two
\* medians, also when the gap lies within `margin` gates of an earlier gap.
C5_FillFromInput ==
    pc = "returned" =>
        \A b \in DOMAIN orig :
            ~all_invalid(orig, b) =>
                \A g \in Gaps(orig[b]) : \A r \in g[1]..(g[2] - 1) :
                    ret[1][b][r] = FillFromBeam(orig[b], g, args.margin)

\* C7: a beam in which every sample is invalid is returned, without error,
\* as a beam of the same length in which every sample is zero, in every beam
\* of a scan on its own: the other beams keep their valid samples and have
\* their gaps filled.
C7_AllInvalidZero ==
    pc = "returned" =>
        /\ DOMAIN ret[1] = DOMAIN orig
        /\ \A b \in DOMAIN orig :
              /\ DOMAIN ret[1][b] = DOMAIN orig[b]
              /\ IF \A r \in DOMAIN orig[b] : isnan(orig[b][r])
                 THEN \A r \in DOMAIN orig[b] : ret[1][b][r] = Num(0)
                 ELSE \A r \in DOMAIN orig[b] :
                        /\ ~isnan(ret[1][b][r])
                        /\ ~isnan(orig[b][r]) => ret[1][b][r] = orig[b][r]

\* fill_phidp has returned for a scan with an all-invalid beam and another
\* beam that has both a gap and a non-zero valid sample.
C7_Witness ==
    /\ pc = "returned"
    /\ \E b \in DOMAIN orig : \A r \in DOMAIN orig[b] : isnan(orig[b][r])
    /\ \E b \in DOMAIN orig :
          /\ \E r \in DOMAIN orig[b] : isnan(orig[b][r])
          /\ \E r \in DOMAIN orig[b] : ~isnan(orig[b][r]) /\ orig[b][r].v > 0

\* C18: after fill_phidp with margin >= 1 no beam contains an invalid
\* sample, whatever the number, length and spacing of its gaps; every
\* sample that was valid in the input keeps its value; and every gap of the
\* input holds one single value at all its gates.
C18_FilledEverywhere ==
    pc = "returned" =>
        \A b \in DOMAIN orig :
            /\ \A r \in DOMAIN orig[b] :
                  /\ ~isnan(ret[1][b][r])
                  /\ ~isnan(orig[b][r]) => ret[1][b][r] = orig[b][r]
            /\ \A g \in Gaps(orig[b]) : \A r \in g[1]..(g[2] - 1) :
                  ret[1][b][r] = ret[1][b][g[1]]

\* fill_phidp has returned, with a margin of two gates or more, a beam of
\* two gaps or more, one of them two gates long with another gap within
\* the margin beside it, and has filled a gap with a non-zero value.
C18_Witness ==
    /\ pc = "returned"
    /\ args.margin >= 2
    /\ \E b \in DOMAIN orig :
          /\ Cardinality(Gaps(orig[b])) >= 2
          /\ \E g \in Gaps(orig[b]) : \E h \in Gaps(orig[b]) :
                /\ g[2] - g[1] >= 2
                /\ h[1] > g[2]
                /\ h[1] < g[2] + args.margin
                /\ ret[1][b][g[1]].v # 0

---------------------------------------------------------------------------
(* kdp_from_phidp *)

RECURSIVE gcd(_, _)
gcd(x, y) == IF y = 0 THEN x ELSE gcd(y, x % y)

abs(x) == IF x < 0 THEN 0 - x ELSE x

\* The quotient num / den (den > 0) of two integers as a float is held as
\* the fraction in lowest terms; NaN has its own flag.
Rat(num, den) ==
    LET g == gcd(abs(num), den)
    IN  [nan |-> FALSE, num |-> num \div g, den |-> den \div g]

RatNaN == [nan |-> TRUE, num |-> 0, den |-> 1]

\* The half width rounded up.
kdp_halfwidth_up(L) == (L + 1) \div 2

\* L/2 on Python 2 integers.
kdp_halfwidth(L) == L \div 2

\* kdp[...,r] = (phidp[...,r+L/2] - phidp[...,r-L/2]) / (2*L) for r in
\* xrange(L/2, n - L/2); the other gates keep the zero of np.zeros.
kdp_from_phidp(phidp, L) ==
    LET h == kdp_halfwidth(L)
    IN  [b \in DOMAIN phidp |->
            LET n == Cardinality(DOMAIN phidp[b])
            IN  [r \in DOMAIN phidp[b] |->
                    IF h <= r /\ r < n - h
                    THEN IF isnan(phidp[b][r + h]) \/ isnan(phidp[b][r - h])
                         THEN RatNaN
                         ELSE Rat(phidp[b][r + h].v - phidp[b][r - h].v,
                                  2 * L * Unit)
                    ELSE Rat(0, 1)]]

\* The number of gates of the ramps handed to kdp_from_phidp.
KdpGates == 100

\* The largest slope and the largest window length of those calls.
KdpSlope == 3

KdpWindow == 8

\* The largest number of gates of the other beams handed to it.
KdpSmall == 4

\* phidp[r] = a*r + b over n gates, one beam.
Ramp(n, a, b) == [i \in {0} |-> [r \in 0..(n - 1) |-> Num((a * r + b) * Unit)]]

InitKdp ==
    /\ \/ \E a \in 0..KdpSlope : \E b \in {0, 10} : data = Ramp(KdpGates, a, b)
       \/ \E n \in 1..KdpSmall :
            data \in [{0} -> [0..(n - 1) -> FillSamples]]
    /\ orig = data
    /\ rho = <<>>
    /\ args \in [L : 1..KdpWindow]
    /\ ret = <<>>
    /\ pc = "caller"
    /\ loc = NoLocals

\* The call kdp_from_phidp(phidp, L) with odd L: a new array is returned.
CallKdp ==
    /\ pc = "caller"
    /\ args.L % 2 = 1
    /\ ret' = <<kdp_from_phidp(data, args.L)>>
    /\ pc' = "returned"
    /\ UNCHANGED <<data, orig, rho, args, loc>>

\* The call with even L: the assertion fails.
CallKdpEven ==
    /\ pc = "caller"
    /\ args.L % 2 # 1
    /\ pc' = "AssertionError"
    /\ UNCHANGED <<data, orig, rho, args, ret, loc>>

NextKdp == CallKdp \/ CallKdpEven

SpecKdp == InitKdp /\ [][NextKdp]_vars

\* C2 as stated: for phidp[r] = 2r + 10 over gates 0..99 and L=7 the result
\* is 1 at every gate 7 <= r < 93 and 0 at every other gate.
C2_RampKdp ==
    (pc = "returned" /\ orig = Ramp(100, 2, 10) /\ args.L = 7) =>
        \A r \in 0..99 :
            ret[1][0][r] = IF 7 <= r /\ r < 93 THEN Rat(1, 1) ELSE Rat(0, 1)

\* C2 as amended: for phidp[r] = 2r + 10 over gates 0..99 and L=7 the result
\* is 6/7 at every gate 3 <= r < 97 and 0 at gates 0..2 and 97..99; for any
\* ramp a*r + b of n gates and odd L it is a*(L-1)/(2L) at the gates
\* L/2 <= r < n - L/2 (integer division) and 0 at the others.
C2_RampKdpAmended ==
    pc = "returned" =>
        /\ \A a \in 0..KdpSlope : \A b \in {0, 10} :
              orig = Ramp(Gates(orig), a, b) =>
                  \A r \in DOMAIN orig[0] :
                      ret[1][0][r] =
                          IF args.L \div 2 <= r /\ r < Gates(orig) - args.L \div 2
                          THEN Rat(a * (args.L - 1), 2 * args.L)
                          ELSE Rat(0, 1)
        /\ (orig = Ramp(100, 2, 10) /\ args.L = 7) =>
              \A r \in 0..99 :
                  ret[1][0][r] = IF 3 <= r /\ r < 97 THEN Rat(6, 7) ELSE Rat(0, 1)

\* kdp_from_phidp has returned for the ramp 2r + 10 over 100 gates, L=7.
C2_Witness ==
    pc = "returned" /\ orig = Ramp(100, 2, 10) /\ args.L = 7

\* q is the float quotient of the difference hi - lo of two samples by 2L:
\* NaN when either sample is invalid, else the fraction whose cross product
\* with (hi - lo) / (2L) agrees, in lowest terms with a positive denominator.
IsQuotient(q, hi, lo, L) ==
    IF isnan(hi) \/ isnan(lo)
    THEN q.nan
    ELSE /\ ~q.nan
         /\ q.den > 0
         /\ q.num * (2 * L * Unit) = (hi.v - lo.v) * q.den
         /\ gcd(abs(q.num), q.den) = 1

\* C11: kdp_from_phidp with odd L on a beam of n gates returns an array of
\* the same shape where kdp[r] = (phidp[r+L/2] - phidp[r-L/2]) / (2L) at
\* every gate L/2 <= r < n - L/2 (integer division) and 0 at every gate
\* within L/2 of either end; the input array is not modified.
C11_KdpFormula ==
    pc = "returned" =>
        /\ DOMAIN ret[1] = DOMAIN orig
        /\ \A b \in DOMAIN orig :
              /\ DOMAIN ret[1][b] = DOMAIN orig[b]
              /\ \A r \in DOMAIN orig[b] :
                    IF args.L \div 2 <= r /\ r < Gates(orig) - args.L \div 2
                    THEN IsQuotient(ret[1][b][r], orig[b][r + args.L \div 2],
                                    orig[b][r - args.L \div 2], args.L)
                    ELSE ret[1][b][r] = Rat(0, 1)
        /\ data = orig

\* kdp_from_phidp has returned for L=3 on a beam of 4 gates that is no ramp:
\* both interior gates hold a non-zero quotient and both ends hold 0.
C11_Witness ==
    /\ pc = "returned"
    /\ args.L = 3
    /\ Gates(orig) = 4
    /\ \A r \in 0..3 : ~isnan(orig[0][r])
    /\ orig[0][2].v - orig[0][0].v # orig[0][3].v - orig[0][1].v
    /\ ret[1][0][1].num # 0
    /\ ret[1][0][2].num # 0

\* kdp_from_phidp has returned for a window longer than the beam: no gate
\* has both ends of its window inside the beam.
C11_WitnessShort ==
    pc = "returned" /\ args.L > Gates(orig) /\ \E r \in DOMAIN orig[0] : ~isnan(orig[0][r]) /\ orig[0][r].v # 0

---------------------------------------------------------------------------
(* texture *)

\* np.roll(a, shift, axis) of a two-dimensional array: axis -2 is the beam
\* axis, axis -1 the range axis.
roll2(a, shift, axis) ==
    LET B == Cardinality(DOMAIN a)
        n == Cardinality(DOMAIN a[0])
    IN  [b \in DOMAIN a |->
            [r \in DOMAIN a[b] |->
                IF axis = -2 THEN a[(b - shift) % B][r]
                ELSE a[b][(r - shift) % n]]]

\* The last neighbour rolled the wrong way: one diagonal is gathered twice
\* and another is missing.
texture_neighbours_diagonal_twice(a) ==
    LET x1 == roll2(a, 1, -2)
        x2 == roll2(a, 1, -1)
        x3 == roll2(a, -1, -2)
        x4 == roll2(a, -1, -1)
        x5 == roll2(x1, 1, -1)
        x6 == roll2(x4, 1, -2)
        x7 == roll2(x3, -1, -1)
        x8 == roll2(x2, 1, -2)
    IN  <<x1, x2, x3, x4, x5, x6, x7, x8>>

\* xa = np.array([x1, x2, x3, x4, x5, x6, x7, x8])
texture_neighbours(a) ==
    LET x1 == roll2(a, 1, -2)
        x2 == roll2(a, 1, -1)
        x3 == roll2(a, -1, -2)
        x4 == roll2(a, -1, -1)
        x5 == roll2(x1, 1, -1)
        x6 == roll2(x4, 1, -2)
        x7 == roll2(x3, -1, -1)
        x8 == roll2(x2, -1, -2)
    IN  <<x1, x2, x3, x4, x5, x6, x7, x8>>

\* diff = data - xarr; diff[isnan(diff)] = 0; diff**2, at one sample.
squared_diff(c, x) ==
    IF isnan(c) \/ isnan(x) THEN 0 ELSE (c.v - x.v) * (c.v - x.v)

RECURSIVE sum_seq(_)
sum_seq(xs) == IF xs = <<>> THEN 0 ELSE Head(xs) + sum_seq(Tail(xs))

\* sqrt(num / cnt) as a float: NaN when num is NaN or 0/0, else the root of
\* the fraction, held as the fraction under the root (num in Unit * Unit).
Root(nan, num, cnt) ==
    IF nan \/ (num = 0 /\ cnt = 0) THEN [nan |-> TRUE, num |-> 0, cnt |-> 1]
    ELSE [nan |-> FALSE, num |-> num, cnt |-> cnt]

\* The centre's own NaN not carried into num.
texture_center_nan_dropped(c) == FALSE

\* num[np.isnan(data)] = np.nan
texture_center_nan(c) == isnan(c)

texture(a) ==
    LET xa == texture_neighbours(a)
    IN  [b \in DOMAIN a |->
            [r \in DOMAIN a[b] |->
                LET xa_valid_count ==
                        sum_seq([k \in 1..8 |->
                                    IF isnan(xa[k][b][r]) THEN 0 ELSE 1])
                    num == sum_seq([k \in 1..8 |->
                                       squared_diff(a[b][r], xa[k][b][r])])
                IN  Root(texture_center_nan(a[b][r]), num, xa_valid_count)]]

\* The largest number of samples of an array handed to texture.
TextureCells == 9

\* The largest number of beams, and of gates, of such an array.
TextureSide == 3

InitTexture ==
    /\ \E s \in { t \in Shapes(TextureCells, 1) :
                     t[1] <= TextureSide /\ t[2] <= TextureSide } :
         data \in [0..(s[1]-1) ->
                     [0..(s[2]-1) -> {NaN, Num(Unit), Num(3 * Unit)}]]
    /\ orig = data
    /\ rho = <<>>
    /\ args = [none |-> TRUE]
    /\ ret = <<>>
    /\ pc = "caller"
    /\ loc = NoLocals

\* The call texture(data): a new array is returned.
CallTexture ==
    /\ pc = "caller"
    /\ ret' = <<texture(data)>>
    /\ pc' = "returned"
    /\ UNCHANGED <<data, orig, rho, args, loc>>

NextTexture == CallTexture

SpecTexture == InitTexture /\ [][NextTexture]_vars

\* C10: the texture of an array whose samples are all valid and all equal is
\* exactly zero at every position, the border included; and in any array the
\* texture at a position whose centre sample is invalid is invalid, whatever
\* the neighbours are.
C10_Texture ==
    pc = "returned" =>
        /\ (\A b \in DOMAIN orig : \A r \in DOMAIN orig[b] :
                ~isnan(orig[b][r]) /\ orig[b][r] = orig[0][0])
              => \A b \in DOMAIN orig : \A r \in DOMAIN orig[b] :
                    ~ret[1][b][r].nan /\ ret[1][b][r].num = 0
        /\ \A b \in DOMAIN orig : \A r \in DOMAIN orig[b] :
              isnan(orig[b][r]) => ret[1][b][r].nan

\* texture has returned for an array of three beams of three gates with an
\* invalid centre sample whose eight neighbours are valid and not all equal.
C10_Witness ==
    /\ pc = "returned"
    /\ Beams(orig) = 3 /\ Gates(orig) = 3
    /\ isnan(orig[1][1])
    /\ \A b \in 0..2 : \A r \in 0..2 : (b # 1 \/ r # 1) => ~isnan(orig[b][r])
    /\ orig[0][0] # orig[2][2]

\* texture has returned for a constant array of three beams of three gates.
C10_WitnessConstant ==
    /\ pc = "returned"
    /\ Beams(orig) = 3 /\ Gates(orig) = 3
    /\ \A b \in 0..2 : \A r \in 0..2 : orig[b][r] = Num(3 * Unit)

\* The eight offsets (beam, gate) of the grid neighbours of a sample.
NeighbourOffsets ==
    <<<<-1, -1>>, <<-1, 0>>, <<-1, 1>>, <<0, -1>>,
      <<0, 1>>, <<1, -1>>, <<1, 0>>, <<1, 1>>>>

\* The sample at offset o from (b, r), both indices taken cyclically.
NeighbourAt(a, b, r, o) == a[(b + o[1]) % Beams(a)][(r + o[2]) % Gates(a)]

\* C13: texture gathers, for each sample, exactly its 8 grid neighbours
\* (previous and next beam, previous and next gate, the four diagonals,
\* each offset once), sums the squared differences to the centre over the
\* valid neighbours and returns the root of that sum divided by the number
\* of valid neighbours (0/0, so invalid, when a valid centre has none).
C13_EightNeighbours ==
    pc = "returned" =>
        \A b \in DOMAIN orig : \A r \in DOMAIN orig[b] :
            ~isnan(orig[b][r]) =>
                LET nb  == [k \in 1..8 |->
                              NeighbourAt(orig, b, r, NeighbourOffsets[k])]
                    cnt == Cardinality({ k \in 1..8 : ~isnan(nb[k]) })
                    sum == sum_seq([k \in 1..8 |->
                              IF isnan(nb[k]) THEN 0
                              ELSE (orig[b][r].v - nb[k].v)
                                       * (orig[b][r].v - nb[k].v)])
                IN  IF cnt = 0 THEN ret[1][b][r].nan
                    ELSE /\ ~ret[1][b][r].nan
                         /\ ret[1][b][r].num = sum
                         /\ ret[1][b][r].cnt = cnt

\* texture has returned for an array of three beams of three gates whose
\* centre sample is valid, with valid and invalid neighbours, and whose two
\* diagonal neighbours at the previous gate differ from the centre by
\* different amounts.
C13_Witness ==
    /\ pc = "returned"
    /\ Beams(orig) = 3 /\ Gates(orig) = 3
    /\ orig[1][1] = Num(Unit)
    /\ orig[0][0] = Num(Unit)
    /\ orig[2][0] = Num(3 * Unit)
    /\ isnan(orig[1][2])
    /\ ret[1][1][1].num > 0

\* texture has returned for an array in which a valid sample has no valid
\* neighbour.
C13_WitnessAlone ==
    /\ pc = "returned"
    /\ Beams(orig) = 3 /\ Gates(orig) = 3
    /\ \A b \in 0..2 : \A r \in 0..2 :
          isnan(orig[b][r]) <=> (b # 1 \/ r # 1)

---------------------------------------------------------------------------
(* unfold_phi_naive *)

\* The arrays handed to the unfolding hold no NaN; their samples are read as
\* integers in a fixed-point unit u (1 when the values are whole degrees).
values(beam) == [r \in DOMAIN beam |-> beam[r].v]

\* scipy.signal.medfilt with kernel N along the range axis (kernel 1 on the
\* other axes): the median of the N samples around r, zeros beyond the ends.
medfilt_along_axis(x, N) ==
    LET h == N \div 2
    IN  [r \in DOMAIN x |->
            sorted([d \in 1..N |->
                       IF (r + d - 1 - h) \in DOMAIN x
                       THEN x[r + d - 1 - h] ELSE 0])[h + 1]]

\* What np.insert(diffs, 0, diff_begin, axis=-1) does with diff_begin of
\* shape (beams, 1) depends on the numpy the code runs on: up to numpy 1.6
\* one column is put in front, beam b receiving diff_begin[b] ("column");
\* as documented since numpy 1.8 the values are taken with their first
\* axis moved to the insertion axis, so that as many columns as there are
\* beams are put in front and every beam receives diff_begin[0],
\* diff_begin[1], ... ("moveaxis").  With one beam the two agree.
NumpyInsert == {"column", "moveaxis"}

np_insert_first(diffs, diff_begin, ins) ==
    LET beams == Cardinality(DOMAIN diffs)
        m     == Cardinality(DOMAIN diffs[0])
    IN  IF ins = "column"
        THEN [b \in DOMAIN diffs |->
                [r \in 0..m |->
                    IF r = 0 THEN diff_begin[b] ELSE diffs[b][r - 1]]]
        ELSE [b \in DOMAIN diffs |->
                [r \in 0..(m + beams - 1) |->
                    IF r < beams THEN diff_begin[r] ELSE diffs[b][r - beams]]]

\* gradient_along_axis of an array of beams, doubled (the halves of the
\* centred differences are kept in the denominator): diffs holds
\* (x[r+1]-x[r-1])/2 for the gates 1..n-2 and then diff_end = x[-1]-x[-2];
\* diff_begin = x[1]-x[0] is inserted in front.
gradient_along_axis(x, ins) ==
    LET n          == Cardinality(DOMAIN x[0])
        diff_begin == [b \in DOMAIN x |-> 2 * (x[b][1] - x[b][0])]
        diffs      == [b \in DOMAIN x |->
                         [r \in 0..(n - 2) |->
                             IF r = n - 2 THEN 2 * (x[b][n - 1] - x[b][n - 2])
                             ELSE x[b][r + 2] - x[b][r]]]
    IN  np_insert_first(diffs, diff_begin, ins)

\* gradient_from_smoothed(x, N=5) of an array of beams, doubled.
gradient_from_smoothed(x, ins) ==
    gradient_along_axis([b \in DOMAIN x |-> medfilt_along_axis(x[b], 5)], ins)

\* np.std(phidp[r:r+9]) < 5: nine times the sum of squares less the square
\* of the sum, against 5*5*9*9.
window_std_below(x, r, u) ==
    LET s1 == sum_seq([d \in 1..9 |-> x[r + d - 1]])
        s2 == sum_seq([d \in 1..9 |-> x[r + d - 1] * x[r + d - 1]])
    IN  9 * s2 - s1 * s1 < 25 * 81 * u * u

\* stdarr[r] < 5: stdarr is computed for r in xrange(rs-9) and is zero at
\* the other gates.
stdarr_below(x, u) ==
    LET rs == Cardinality(DOMAIN x)
    IN  [r \in DOMAIN x |-> IF r < rs - 9 THEN window_std_below(x, r, u) ELSE TRUE]

\* The window of rho taken as wide as the analysis window.
rho_window_width(width) == width

\* rho[beam, j:j+5]: the window of rho is five gates whatever the width.
rho_window(width) == 5

\* The test of step 1 at start index j.
onset_test(stdok, rhob, j, width) ==
    LET rs == Cardinality(DOMAIN stdok)
    IN  /\ Cardinality({ r \in j..(j + width - 1) : r < rs /\ stdok[r] }) = width
        /\ Cardinality({ r \in j..(j + rho_window(width) - 1) :
                             r < rs /\ rhob[r] > 90 }) = width

\* The value of j after "for j in range(0, rs-width): if test: break": the
\* first start index passing the test, or the last index of the range.
onset(stdok, rhob, width) ==
    LET rs   == Cardinality(DOMAIN stdok)
        hits == { j \in 0..(rs - width - 1) : onset_test(stdok, rhob, j, width) }
    IN  IF hits = {} THEN rs - width - 1
        ELSE CHOOSE j \in hits : \A i \in hits : j <= i

\* ref = np.mean(phidp[beam, j:j+width]), times 4*width.
onset_ref(x, j, width) == 4 * sum_seq([d \in 1..width |-> x[j + d - 1]])

\* The test that lets the reference advance at gate k.
advance_test(stdok, grad, k, width, u) ==
    /\ \E r \in (k - width)..(k - 1) : stdok[r]
    /\ grad[k] > (0 - 10) * u
    /\ grad[k] < 40 * u

\* ref + gradphi[beam, k]*0.5, in units of 1/(4*width).
advance_ref(ref, stdok, grad, k, width, u) ==
    IF advance_test(stdok, grad, k, width, u) THEN ref + width * grad[k] ELSE ref

\* The sign test the wrong way round.
fold_test_positive(xk, ref, width, u) ==
    /\ 4 * width * xk - ref < (0 - 80) * u * 4 * width
    /\ xk > 0

\* The fold test made without asking for a negative sample.
fold_test_any_sign(xk, ref, width, u) ==
    4 * width * xk - ref < (0 - 80) * u * 4 * width

\* phidp[beam,k] - ref < -80 and phidp[beam,k] < 0
fold_test(xk, ref, width, u) ==
    /\ 4 * width * xk - ref < (0 - 80) * u * 4 * width
    /\ xk < 0

\* The fold test made only at the gates where the reference does not
\* advance.
track_step_elif_only(x, ref, stdok, grad, k, width, u) ==
    LET ref1 == advance_ref(ref, stdok, grad, k, width, u)
    IN  [ref |-> ref1,
         xk  |-> IF /\ ~advance_test(stdok, grad, k, width, u)
                    /\ fold_test(x[k], ref1, width, u)
                 THEN x[k] + 360 * u ELSE x[k]]

\* One pass of the loop over k: the new reference and the new sample.
track_step(x, ref, stdok, grad, k, width, u) ==
    LET ref1 == advance_ref(ref, stdok, grad, k, width, u)
    IN  [ref |-> ref1,
         xk  |-> IF fold_test(x[k], ref1, width, u) THEN x[k] + 360 * u ELSE x[k]]

\* for k in range(j+width, rs), from gate k on.
RECURSIVE track(_, _, _, _, _, _, _)
track(x, ref, stdok, grad, k, width, u) ==
    IF k \notin DOMAIN x THEN x
    ELSE LET st == track_step(x, ref, stdok, grad, k, width, u)
         IN  track([x EXCEPT ![k] = st.xk], st.ref, stdok, grad, k + 1, width, u)

\* np.all(phidp[beam]==0)
all_zero(x) == \A r \in DOMAIN x : x[r] = 0

\* The body of the loop over the beams, for one beam of more than `width`
\* gates.
unfold_beam(x, rhob, grad, width, u) ==
    IF all_zero(x) THEN x
    ELSE LET stdok == stdarr_below(x, u)
             j     == onset(stdok, rhob, width)
         IN  track(x, onset_ref(x, j, width), stdok, grad, j + width, width, u)

\* Whether the loop over the beams ends in an error: with rs <= width the
\* range of step 1 is empty and j is read before it is ever assigned, at the
\* first beam that is not skipped.
unfold_fails(a, width) ==
    /\ Gates(a) <= width
    /\ \E b \in DOMAIN a : ~all_zero(values(a[b]))

\* unfold_phi_naive(phidp, rho, width) once the shapes agree and where it
\* does not fail: gradphi is computed from the whole array, then every beam
\* is unfolded.
unfold_phi_naive(a, rhoa, width, u, ins) ==
    LET gradphi == gradient_from_smoothed([b \in DOMAIN a |-> values(a[b])], ins)
    IN  [b \in DOMAIN a |->
            LET x == unfold_beam(values(a[b]), rhoa[b], gradphi[b], width, u)
            IN  [r \in DOMAIN a[b] |-> Num(x[r])]]

\* rho.shape == shape
same_shape(a, rhoa) ==
    /\ DOMAIN a = DOMAIN rhoa
    /\ \A b \in DOMAIN a : DOMAIN a[b] = DOMAIN rhoa[b]

---------------------------------------------------------------------------
(* Calls of unfold_phi_naive, followed beam by beam and gate by gate *)

\* The largest number of gates of a beam handed to unfold_phi_naive, and the
\* smallest.
UnfoldGates == 19

UnfoldMinGates == 4

\* The largest increment per gate of the ramps handed to it.
UnfoldSlope == 2

\* The ramp a*r + b in whole degrees, with 360 taken off at every gate from
\* gate k on.
FoldedRamp(rs, a, b, k) ==
    [r \in 0..(rs - 1) |-> Num(a * r + b - (IF r >= k THEN 360 ELSE 0))]

\* rho in hundredths: 50 on the first p gates and 100 on the others, over
\* rs gates.
RhoBeam(rs, p) == [r \in 0..(rs - 1) |-> IF r < p THEN 50 ELSE 100]

InitUnfold ==
    /\ \E rs \in UnfoldMinGates..UnfoldGates :
         \E a \in 1..UnfoldSlope : \E k \in 0..rs : \E nb \in 1..2 :
         \E p \in {0, 3, rs} : \E short \in BOOLEAN :
            /\ data = [b \in 0..(nb - 1) |->
                          IF b = 0 THEN FoldedRamp(rs, a, 0, k)
                          ELSE [r \in 0..(rs - 1) |-> Num(0)]]
            /\ rho = [b \in 0..(nb - 1) |->
                         RhoBeam(IF short THEN rs - 1 ELSE rs, p)]
    /\ orig = data
    /\ args \in [width : {3, 5}, copy : BOOLEAN]
    /\ ret = <<>>
    /\ pc = "caller"
    /\ loc = NoLocals

\* The working array written back as samples.
as_samples(w) == [b \in DOMAIN w |-> [r \in DOMAIN w[b] |-> Num(w[b][r])]]

\* assert rho.shape==shape fails.
UnfoldShapeMismatch ==
    /\ pc = "caller"
    /\ ~same_shape(data, rho)
    /\ pc' = "AssertionError"
    /\ UNCHANGED <<data, orig, rho, args, ret, loc>>

\* The shapes agree: gradphi and stdarr are computed from the array as it
\* is handed in, gradphi as the numpy at hand builds it, and the loop over
\* the beams starts.
UnfoldStart ==
    /\ pc = "caller"
    /\ same_shape(data, rho)
    /\ \E ins \in NumpyInsert :
          loc' = [phidp |-> [b \in DOMAIN data |-> values(data[b])],
                  grad  |-> gradient_from_smoothed(
                                [b \in DOMAIN data |-> values(data[b])], ins),
                  stdok |-> [b \in DOMAIN data |->
                               stdarr_below(values(data[b]), 1)],
                  beam  |-> 0, j |-> -1, k |-> 0, ref |-> 0]
    /\ pc' = "beam"
    /\ UNCHANGED <<data, orig, rho, args, ret>>

\* if np.all(phidp[beam]==0): continue
UnfoldSkipBeam ==
    /\ pc = "beam"
    /\ loc.beam \in DOMAIN loc.phidp
    /\ all_zero(loc.phidp[loc.beam])
    /\ loc' = [loc EXCEPT !.beam = @ + 1]
    /\ UNCHANGED <<data, orig, rho, args, ret, pc>>

\* range(0, rs-width) is empty: j is read unassigned.
UnfoldNoRange ==
    /\ pc = "beam"
    /\ loc.beam \in DOMAIN loc.phidp
    /\ ~all_zero(loc.phidp[loc.beam])
    /\ Gates(data) <= args.width
    /\ pc' = "UnboundLocalError"
    /\ UNCHANGED <<data, orig, rho, args, ret, loc>>

\* Step 1: j is found, ref is the mean of phidp[beam, j:j+width].
UnfoldOnset ==
    /\ pc = "beam"
    /\ loc.beam \in DOMAIN loc.phidp
    /\ ~all_zero(loc.phidp[loc.beam])
    /\ Gates(data) > args.width
    /\ LET b == loc.beam
           j == onset(loc.stdok[b], rho[b], args.width)
       IN  loc' = [loc EXCEPT !.j = j, !.k = j + args.width,
                              !.ref = onset_ref(loc.phidp[b], j, args.width)]
    /\ pc' = "track"
    /\ UNCHANGED <<data, orig, rho, args, ret>>

\* One pass of the loop over k.  Without copy the working array is the
\* caller's.
UnfoldTrack ==
    /\ pc = "track"
    /\ loc.k < Gates(data)
    /\ LET b  == loc.beam
           st == track_step(loc.phidp[b], loc.ref, loc.stdok[b], loc.grad[b],
                            loc.k, args.width, 1)
       IN  /\ loc' = [loc EXCEPT !.phidp[b][loc.k] = st.xk, !.ref = st.ref,
                                  !.k = @ + 1]
           /\ data' = IF args.copy THEN data
                      ELSE [data EXCEPT ![b][loc.k] = Num(st.xk)]
    /\ UNCHANGED <<orig, rho, args, ret, pc>>

\* The loop over k is over: the next beam.
UnfoldBeamDone ==
    /\ pc = "track"
    /\ loc.k = Gates(data)
    /\ loc' = [loc EXCEPT !.beam = @ + 1]
    /\ pc' = "beam"
    /\ UNCHANGED <<data, orig, rho, args, ret>>

\* return phidp
UnfoldReturn ==
    /\ pc = "beam"
    /\ loc.beam \notin DOMAIN loc.phidp
    /\ ret' = <<as_samples(loc.phidp)>>
    /\ pc' = "returned"
    /\ UNCHANGED <<data, orig, rho, args, loc>>

NextUnfold ==
    \/ UnfoldShapeMismatch
    \/ UnfoldStart
    \/ UnfoldSkipBeam
    \/ UnfoldNoRange
    \/ UnfoldOnset
    \/ UnfoldTrack
    \/ UnfoldBeamDone
    \/ UnfoldReturn

SpecUnfold == InitUnfold /\ [][NextUnfold]_vars

\* The stepwise run and unfold_phi_naive agree on what is returned.
UnfoldAgrees ==
    pc = "returned" =>
        \E ins \in NumpyInsert :
            ret[1] = unfold_phi_naive(orig, rho, args.width, 1, ins)

\* The call under study is unfold_phi_naive(phidp, rho, width=5) on the ramp
\* a*r folded from gate k on, with rho above 0.9 at every gate, and has
\* returned.
FoldedRampCall(a, k) ==
    /\ pc = "returned"
    /\ args.width = 5
    /\ orig[0] = FoldedRamp(Gates(orig), a, 0, k)
    /\ \A r \in DOMAIN rho[0] : rho[0][r] > 90

\* The beam returned is the ramp a*r without the fold.
RampReturned(a) == ret[1][0] = FoldedRamp(Gates(orig), a, 0, Gates(orig))

\* C4 as stated: a smooth increasing ramp with 360 taken off at every gate
\* from some gate k on, rho above 0.9 everywhere, is returned by
\* unfold_phi_naive (width=5) as the ramp itself: the offset is removed at
\* every gate >= k and the gates < k are unchanged.
C4_RampRestored ==
    \A a \in 1..UnfoldSlope : \A k \in 0..(Gates(orig) - 1) :
        FoldedRampCall(a, k) => RampReturned(a)

\* C4 as amended: the ramp phidp[r] = r (one degree per gate, so that the
\* dispersion of its 9-gate windows is below 5) with 360 taken off at every
\* gate from gate k on, k >= 13, is returned as the ramp itself.
C4_RampRestoredFrom13 ==
    \A k \in 13..(Gates(orig) - 1) :
        FoldedRampCall(1, k) => RampReturned(1)

\* unfold_phi_naive has returned for the ramp r folded from a gate k >= 13
\* on that is neither the last gate nor in its last four.
C4_Witness ==
    /\ pc = "returned"
    /\ \E k \in 13..(Gates(orig) - 2) : FoldedRampCall(1, k)
    /\ ret[1][0] # orig[0]

\* The folds that are removed, as the code's arithmetic gives them: the fold
\* gate lies past an onset window found before it.
C4_RestoredExactly ==
    \A a \in 1..2 : \A k \in 0..(Gates(orig) - 1) :
        (FoldedRampCall(a, k) /\ Gates(orig) > 5) =>
            (RampReturned(a) <=>
                /\ k >= 5
                /\ (a = 1 /\ k >= 13) \/ k >= Gates(orig) - 4)

\* The window [j, j+w) of beam b is an onset window: the dispersion is
\* below the noise threshold and rho exceeds the confidence threshold at
\* all its w gates.
OnsetWindow(b, j, w) ==
    \A g \in j..(j + w - 1) : loc.stdok[b][g] /\ rho[b][g] > 90

\* With onset windows among the start indices 0..last, step 1 has chosen
\* the first of them, the reference starts as the mean of phidp over it
\* (times 4w, as ref is held) and tracking starts at its end.
OnsetIsFirstWindow(last) ==
    LET b    == loc.beam
        w    == args.width
        wins == { j \in 0..last : OnsetWindow(b, j, w) }
    IN  wins # {} =>
            /\ loc.j \in wins
            /\ \A i \in wins : loc.j <= i
            /\ loc.k >= loc.j + w
            /\ loc.k = loc.j + w =>
                   loc.ref = 4 * sum_seq([d \in 1..w |->
                                             loc.phidp[b][loc.j + d - 1]])

\* C15: in unfold_phi_naive, for every analysis width w, the onset of a
\* beam is the first start index j such that the dispersion is below the
\* noise threshold (5) and rho exceeds the confidence threshold (0.9) at
\* all w gates of the window [j, j+w); the running reference is initialised
\* to the mean of phidp over that window and tracking starts at gate j+w.
C15_Onset ==
    pc = "track" => OnsetIsFirstWindow(Gates(data) - args.width)

\* The same for width 5 alone, over the start indices that step 1 visits
\* (range(0, rs-width) leaves out the last window of the beam).
C15_OnsetWidth5 ==
    (pc = "track" /\ args.width = 5) =>
        OnsetIsFirstWindow(Gates(data) - args.width - 1)

\* Step 1 has run with width 3 on a beam whose first three gates are an
\* onset window.
C15_WitnessWidth3 ==
    /\ pc = "track"
    /\ args.width = 3
    /\ OnsetWindow(loc.beam, 0, 3)
    /\ loc.j # 0

\* Step 1 finds no onset window in beam b: no start index it visits passes
\* its test.
NoOnsetFound(b) ==
    \A j \in 0..(Gates(orig) - args.width - 1) :
        ~onset_test(loc.stdok[b], rho[b], j, args.width)

\* C16: a beam in which no onset window is found is returned with every
\* gate equal to its input value; likewise a beam that is all zero is
\* returned untouched.
C16_NoOnsetUntouched ==
    pc = "returned" =>
        \A b \in DOMAIN orig :
            (all_zero(values(orig[b])) \/ NoOnsetFound(b))
                => ret[1][b] = orig[b]

\* The part of C16 about the beams that are skipped: an all-zero beam is
\* returned untouched.
C16_ZeroBeamUntouched ==
    pc = "returned" =>
        \A b \in DOMAIN orig :
            all_zero(values(orig[b])) => ret[1][b] = orig[b]

\* unfold_phi_naive has returned, with width 5, a beam in which no onset
\* window was found and whose last gate it has changed.
C16_WitnessLastGate ==
    /\ pc = "returned"
    /\ args.width = 5
    /\ NoOnsetFound(0)
    /\ ret[1][0][Gates(orig) - 1] # orig[0][Gates(orig) - 1]

\* unfold_phi_naive has returned a scan with an all-zero beam beside a
\* beam that it has changed.
C16_WitnessZeroBeam ==
    /\ pc = "returned"
    /\ Beams(orig) = 2
    /\ all_zero(values(orig[1]))
    /\ ret[1][0] # orig[0]

\* While a beam is tracked: the gate to visit next lies between the end of
\* the onset window and the end of the beam, every gate of the beam holds
\* its input or its input plus 360, and the gates before the end of the
\* onset window and those not yet visited hold their input.
TrackingState ==
    pc = "track" =>
        LET b == loc.beam
        IN  /\ loc.j + args.width <= loc.k
            /\ loc.k <= Gates(orig)
            /\ \A r \in DOMAIN orig[b] :
                  /\ loc.phidp[b][r] \in {orig[b][r].v, orig[b][r].v + 360}
                  /\ (r < loc.j + args.width \/ r >= loc.k)
                         => loc.phidp[b][r] = orig[b][r].v

\* Every returned sample is its input or its input plus 360.
ReturnedState ==
    pc = "returned" =>
        \A b \in DOMAIN orig : \A r \in DOMAIN orig[b] :
            ~isnan(ret[1][b][r])
                /\ ret[1][b][r].v \in {orig[b][r].v, orig[b][r].v + 360}

\* One step of the tracking: it starts at the end of the onset window,
\* goes on to the next gate, and ends after the last gate; the gate visited
\* is increased by 360 exactly when it is negative and more than 80 below
\* the reference as it stands after this gate's update, and no other sample
\* changes.
TrackingStep ==
    /\ (pc # "track" /\ pc' = "track") => loc'.k = loc'.j + args.width
    /\ (pc = "track" /\ pc' # "track") => loc.k = Gates(orig)
    /\ (pc = "track" /\ pc' = "track") =>
          LET b  == loc.beam
              k  == loc.k
              xk == loc.phidp[b][k]
              w  == args.width
          IN  /\ loc'.k = k + 1
              /\ loc'.phidp[b][k] =
                    IF 4 * w * xk - loc'.ref < (0 - 80) * 4 * w /\ xk < 0
                    THEN xk + 360 ELSE xk
              /\ \A c \in DOMAIN loc.phidp : \A r \in DOMAIN loc.phidp[c] :
                    (c # b \/ r # k) => loc'.phidp[c][r] = loc.phidp[c][r]

\* C17: in the tracking phase the gates are visited in ascending order from
\* the end of the onset window to the last gate; at each visited gate the
\* sample is increased by 360 exactly when it lies more than 80 below the
\* current running reference and is negative, whether or not the reference
\* was advanced at that gate; each gate is corrected at most once, the
\* gates before the end of the onset window are never changed, and every
\* output sample equals its input or its input plus 360.
C17_Tracking ==
    /\ [](TrackingState /\ ReturnedState)
    /\ [][TrackingStep]_vars

\* The gate just visited was increased by 360 and the reference was
\* advanced at it.
C17_Witness ==
    /\ pc = "track"
    /\ loc.k > loc.j + args.width
    /\ LET b == loc.beam
           g == loc.k - 1
       IN  /\ loc.phidp[b][g] = orig[b][g].v + 360
           /\ advance_test(loc.stdok[b], loc.grad[b], g, args.width, 1)

\* The gate just visited was increased by 360 and the reference was not
\* advanced at it.
C17_WitnessNotAdvanced ==
    /\ pc = "track"
    /\ loc.k > loc.j + args.width
    /\ LET b == loc.beam
           g == loc.k - 1
       IN  /\ loc.phidp[b][g] = orig[b][g].v + 360
           /\ ~advance_test(loc.stdok[b], loc.grad[b], g, args.width, 1)

---------------------------------------------------------------------------
(* process_raw_phidp, followed stage by stage *)

\* speedupexists: wradlib.speedup is not built, the import fails and the
\* Python unfolding is used.
speedupexists == FALSE

\* The largest number of samples and of gates of a scan handed to
\* process_raw_phidp, and the smallest number of gates.
ProcessCells == 10

ProcessGates == 7

ProcessMinGates == 5

\* As ScanOf, the values in the fixed-point unit.
PhidpOf(s, mask) ==
    [b \in 0..(s[1]-1) |->
        [r \in 0..(s[2]-1) |->
            IF mask[b][r] THEN Num((10 * b + r + 1) * Unit) ELSE NaN]]

InitProcess ==
    /\ \E s \in { t \in Shapes(ProcessCells, ProcessMinGates) :
                     t[2] <= ProcessGates } :
         /\ \E mask \in Masks(s) : data = PhidpOf(s, mask)
         /\ \E short \in BOOLEAN :
              rho = [b \in 0..(s[1]-1) |->
                        RhoBeam(IF short THEN s[2] - 1 ELSE s[2], 0)]
    /\ orig = data
    /\ args \in [N_despeckle : {3}, N_fillmargin : {3}, N_unfold : {5},
                  N_filter : {5}, copy : BOOLEAN]
    /\ ret = <<>>
    /\ pc = "caller"
    /\ loc = NoLocals

\* The stage rewrites the caller's array whatever copy says.
Rewritten_in_place(out) ==
    /\ loc' = [phidp |-> out]
    /\ data' = out

\* The stage has rewritten the local array phidp; without copy that array
\* is the caller's.
Rewritten(out) ==
    /\ loc' = [phidp |-> out]
    /\ data' = IF args.copy THEN data ELSE out

\* if copy: phidp = phidp.copy(); phidp = linear_despeckle(phidp, N)
ProcessDespeckle ==
    /\ pc = "caller"
    /\ Rewritten(linear_despeckle(data, args.N_despeckle))
    /\ pc' = "fill"
    /\ UNCHANGED <<orig, rho, args, ret>>

\* phidp = fill_phidp(phidp, margin=N_fillmargin)
ProcessFill ==
    /\ pc = "fill"
    /\ Rewritten(fill_phidp(loc.phidp, args.N_fillmargin))
    /\ pc' = "unfold"
    /\ UNCHANGED <<orig, rho, args, ret>>

\* The unfolding refuses a rho of another shape: its assertion is the first
\* thing it does.
ProcessShapeMismatch ==
    /\ pc = "unfold"
    /\ ~same_shape(loc.phidp, rho)
    /\ pc' = "AssertionError"
    /\ UNCHANGED <<data, orig, rho, args, ret, loc>>

\* The unfolding fails on beams of no more than N_unfold gates.
ProcessNoRange ==
    /\ pc = "unfold"
    /\ ~speedupexists
    /\ same_shape(loc.phidp, rho)
    /\ unfold_fails(loc.phidp, args.N_unfold)
    /\ pc' = "UnboundLocalError"
    /\ UNCHANGED <<data, orig, rho, args, ret, loc>>

\* phidp = unfold_phi_naive(phidp, rho, width=N_unfold)
ProcessUnfold ==
    /\ pc = "unfold"
    /\ ~speedupexists
    /\ same_shape(loc.phidp, rho)
    /\ ~unfold_fails(loc.phidp, args.N_unfold)
    /\ \E ins \in NumpyInsert :
          Rewritten(unfold_phi_naive(loc.phidp, rho, args.N_unfold, Unit, ins))
    /\ pc' = "filter"
    /\ UNCHANGED <<orig, rho, args, ret>>

\* phidp = medfilt_along_axis(phidp, N=N_filter); return phidp.  The
\* filter returns a new array.
ProcessFilter ==
    /\ pc = "filter"
    /\ ret' = <<[b \in DOMAIN loc.phidp |->
                   LET x == medfilt_along_axis(values(loc.phidp[b]), args.N_filter)
                   IN  [r \in DOMAIN x |-> Num(x[r])]]>>
    /\ pc' = "returned"
    /\ UNCHANGED <<data, orig, rho, args, loc>>

NextProcess ==
    \/ ProcessDespeckle
    \/ ProcessFill
    \/ ProcessShapeMismatch
    \/ ProcessNoRange
    \/ ProcessUnfold
    \/ ProcessFilter

SpecProcess == InitProcess /\ [][NextProcess]_vars

\* C3: when process_raw_phidp is called with copy=False and a rho of another
\* shape than phidp, the call fails before any stage has run: when the
\* failure is raised the caller's phidp is as it was before the call.
C3_FailsBeforeProcessing ==
    (pc = "AssertionError" /\ ~args.copy /\ ~same_shape(orig, rho))
        => data = orig

---------------------------------------------------------------------------
(* adjust.py: Raw_at_obs *)

\* The names looked up in the numpy namespace by the calls that are
\* followed: np.mean and np.median are functions, np.pi is a float.
NumpyFunctions == {"mean", "median"}

NumpyAttributes == NumpyFunctions \cup {"pi"}

\* The stat names handed to the constructor.
StatNames == NumpyAttributes \cup {"best", "bogus"}

\* The local name newfunc at `return newfunc`: bound to a wrapper of
\* getattr(np, funcname) when that lookup succeeds, to best when it fails
\* and funcname is 'best', and otherwise never assigned (nothing inside
\* the inner try raises, so its except clause is never entered).
Unbound == [bound |-> FALSE, np |-> FALSE, name |-> ""]

get_statfunc(funcname) ==
    IF funcname \in NumpyAttributes
    THEN [bound |-> TRUE, np |-> TRUE, name |-> funcname]
    ELSE IF funcname = "best"
    THEN [bound |-> TRUE, np |-> FALSE, name |-> "best"]
    ELSE Unbound

\* tree.query(obs_coords, k=nnear)[1] for one observation point at p among
\* the raw points 0..n-1 on a line: nnear different indices in order of
\* distance, no point left out being nearer than one taken; the order
\* among points at the same distance is the tree's.
get_neighbours_ix(p, n, nnear) ==
    { ix \in [1..nnear -> 0..(n - 1)] :
        /\ \A i \in 1..nnear : \A j \in 1..nnear :
              i < j => ix[i] # ix[j] /\ abs(ix[i] - p) <= abs(ix[j] - p)
        /\ \A m \in 0..(n - 1) :
              (\A i \in 1..nnear : ix[i] # m)
                  => abs(m - p) >= abs(ix[nnear] - p) }

\* best(x, y) for one observation: y[argmin(abs(x - y))], the first of the
\* nearest values.
best(x, y) ==
    LET i == CHOOSE i \in 1..Len(y) :
                 /\ \A j \in 1..Len(y) : abs(x - y[i]) <= abs(x - y[j])
                 /\ \A j \in 1..(i - 1) : abs(x - y[j]) > abs(x - y[i])
    IN  Rat(y[i], 1)

\* func(y, axis=1) for np.mean and np.median, over the neighbours of one
\* observation.
numpy_stat(name, y) ==
    LET vs == sorted(y)
        m  == Len(y)
    IN  IF name = "mean" THEN Rat(sum_seq(y), m)
        ELSE IF m % 2 = 1 THEN Rat(vs[(m + 1) \div 2], 1)
        ELSE Rat(vs[m \div 2] + vs[m \div 2 + 1], 2)

\* The number of raw points and the largest raw and observed value.
AdjustPoints == 3

AdjustValues == 2

\* Raw_at_obs(obs_coords, raw_coords, nnear, stat) followed by one call
\* of the object with the raw values `data` and the observation args.obs.
InitAdjust ==
    /\ data \in [0..(AdjustPoints - 1) -> 0..AdjustValues]
    /\ orig = data
    /\ rho = <<>>
    /\ args \in [stat : StatNames, nnear : 2..AdjustPoints,
                  obs_coords : 0..(AdjustPoints - 1), obs : 0..AdjustValues]
    /\ ret = <<>>
    /\ pc = "caller"
    /\ loc = NoLocals

\* self.statfunc = _get_statfunc(stat)
AdjustStatfunc ==
    /\ pc = "caller"
    /\ get_statfunc(args.stat).bound
    /\ loc' = [statfunc |-> get_statfunc(args.stat)]
    /\ pc' = "statfunc"
    /\ UNCHANGED <<data, orig, rho, args, ret>>

\* return newfunc with newfunc never assigned.
AdjustStatfuncUnbound ==
    /\ pc = "caller"
    /\ ~get_statfunc(args.stat).bound
    /\ pc' = "UnboundLocalError"
    /\ UNCHANGED <<data, orig, rho, args, ret, loc>>

\* self.raw_ix = _get_neighbours_ix(obs_coords, raw_coords, nnear)
AdjustNeighbours ==
    /\ pc = "statfunc"
    /\ \E ix \in get_neighbours_ix(args.obs_coords, AdjustPoints, args.nnear) :
          loc' = [statfunc |-> loc.statfunc, raw_ix |-> ix]
    /\ pc' = "constructed"
    /\ UNCHANGED <<data, orig, rho, args, ret>>

\* __call__(raw, obs): self.statfunc(obs, raw[self.raw_ix])
AdjustCall ==
    /\ pc = "constructed"
    /\ loc.statfunc.np => loc.statfunc.name \in NumpyFunctions
    /\ LET raw_neighbs == [i \in DOMAIN loc.raw_ix |-> data[loc.raw_ix[i]]]
       IN  ret' = <<IF loc.statfunc.np
                    THEN numpy_stat(loc.statfunc.name, raw_neighbs)
                    ELSE best(args.obs, raw_neighbs)>>
    /\ pc' = "returned"
    /\ UNCHANGED <<data, orig, rho, args, loc>>

\* The wrapped numpy attribute is no function: calling it fails.
AdjustCallNotCallable ==
    /\ pc = "constructed"
    /\ loc.statfunc.np
    /\ loc.statfunc.name \notin NumpyFunctions
    /\ pc' = "TypeError"
    /\ UNCHANGED <<data, orig, rho, args, ret, loc>>

NextAdjust ==
    \/ AdjustStatfunc
    \/ AdjustStatfuncUnbound
    \/ AdjustNeighbours
    \/ AdjustCall
    \/ AdjustCallNotCallable

SpecAdjust == InitAdjust /\ [][NextAdjust]_vars

\* C14: constructing Raw_at_obs with a stat name that is neither a numpy
\* function name nor 'best' fails at construction, before any neighbour
\* lookup is built and before the object can be called: no neighbour index
\* exists and the object is never constructed or called.
C14_UnknownStatFails ==
    args.stat \notin NumpyFunctions \cup {"best"} =>
        /\ pc \in {"caller", "UnboundLocalError"}
        /\ loc = NoLocals

\* The same for the names that are not in the numpy namespace at all: the
\* construction ends in the UnboundLocalError of `return newfunc`.
C14_UnboundNameFails ==
    args.stat \notin NumpyAttributes \cup {"best"} =>
        /\ pc \in {"caller", "UnboundLocalError"}
        /\ loc = NoLocals

\* The construction has failed for a name that is not in the numpy
\* namespace.
C14_WitnessUnbound == pc = "UnboundLocalError" /\ args.stat = "bogus"

\* An object constructed with stat='pi' has been called.
C14_WitnessNotCallable == pc = "TypeError" /\ args.stat = "pi"

---------------------------------------------------------------------------
(* copy=True *)

\* One call of linear_despeckle, of unfold_phi_naive or of
\* process_raw_phidp: which function is called shows in the keyword
\* arguments of the call.
InitCopy == InitDespeckle \/ InitUnfold \/ InitProcess

NextCopy ==
    \/ "N" \in DOMAIN args /\ NextDespeckle
    \/ "width" \in DOMAIN args /\ NextUnfold
    \/ "N_unfold" \in DOMAIN args /\ NextProcess

SpecCopy == InitCopy /\ [][NextCopy]_vars

\* C12: with copy=True, process_raw_phidp, linear_despeckle and
\* unfold_phi_naive never modify the caller's array: at every point of the
\* call, and so when it has returned or failed, the caller's array holds
\* the values it held before the call.
C12_CopyKeepsInput == args.copy => data = orig

\* process_raw_phidp has returned with copy=True and its result differs
\* from the array handed in.
C12_Witness ==
    /\ "N_unfold" \in DOMAIN args
    /\ args.copy
    /\ pc = "returned"
    /\ ret[1] # orig

\* linear_despeckle with copy=True has returned an array that differs from
\* the one handed in.
C12_WitnessDespeckle ==
    "N" \in DOMAIN args /\ args.copy /\ ret # <<>> /\ ret[1] # orig

\* unfold_phi_naive with copy=True has returned an array that differs from
\* the one handed in.
C12_WitnessUnfold ==
    /\ "width" \in DOMAIN args
    /\ args.copy
    /\ pc = "returned"
    /\ ret[1] # orig

\* A call with copy=True has failed after its first stage.
C12_WitnessFails ==
    /\ args.copy
    /\ pc \in {"AssertionError", "UnboundLocalError"}
    /\ loc # NoLocals

===========================================================================
